---- MODULE Spec2Model ----
(***************************************************************************)
(* Model of the Docker-Update daemon (src/Docker-Update.py).               *)
(*                                                                         *)
(* The module binds update_container twice (lines 190 and 326); Python     *)
(* keeps the second binding, so main() runs the definition of lines        *)
(* 326-393.  That definition is the one modelled here.  The container      *)
(* runtime, the image registry and the operator's Ctrl-C are the           *)
(* environment: every runtime call main() makes is one step whose outcome  *)
(* (success or an exception) the environment chooses.                      *)
(*                                                                         *)
(* The Telegram listener (src/listener.py) is modelled beside it: its      *)
(* polling loop with Telegram's queue of updates (SpecListener), and the   *)
(* updater run it starts next to the daemon (SpecTrigger).                 *)
(***************************************************************************)
EXTENDS Integers, Sequences, FiniteSets, TLC

(* ------------------------------ bounds -------------------------------- *)

\* Passes of the main loop a process is followed through.
MaxPasses == 2

\* Registry pushes the environment makes during a run; each moves one
\* repository's "latest" to a new image id.
MaxPushes == 1

\* CFG["check_interval"], in clock units (read from CHECK_INTERVAL).
CheckInterval == 2

\* The largest update id Telegram assigns while the listener is followed.
MaxUpdates == 3

(* --------------------------- the environment -------------------------- *)

\* Updater processes: the daemon, and a run started through the listener.
Procs == {"daemon", "manual"}

\* Names of the workloads the runtime holds.
Names == {"web", "db"}

StackLabel == "com.docker.stack.namespace"
ProjectLabel == "com.docker.compose.project"
ServiceLabel == "com.docker.compose.service"

\* What the runtime assigns when run() is given no network argument.
DefaultNetwork == "bridge"

Absent == [status |-> "absent"]

\* container.image.tags[0], already cut at its ":" separators.
WebTags == <<"nginx", "latest">>
DbTags == <<"postgres", "14.2">>

WebConfig ==
    [ports |-> "8080:80", env |-> "A=1", mounts |-> "/data",
     restart |-> "unless-stopped", network |-> "host"]

DbConfig ==
    [ports |-> "5432:5432", env |-> "PGDATA=/pg", mounts |-> "/pg",
     restart |-> "on-failure", network |-> DefaultNetwork]

\* The workloads a pass may discover: the labels decide the topology the
\* specification assigns, the tag whether the image is pinned.
Container(tags, labels, config) ==
    [status |-> "running", id |-> 0, tags |-> tags, image |-> 1,
     labels |-> labels, config |-> config]

WebContainers ==
    {Container(WebTags, l, WebConfig) :
        l \in {{}, {StackLabel}, {StackLabel, ProjectLabel, ServiceLabel}}}

DbContainers ==
    {Container(DbTags, l, DbConfig) : l \in {{}, {ProjectLabel, ServiceLabel}}}

Repos == {"nginx", "postgres"}

VARIABLES
    DRY_RUN,          \* per process: --dry-run
    RUN_ONCE,         \* per process: --run-once
    skip_containers,  \* CFG["skip_containers"]
    runtime,          \* the container runtime: name -> container or Absent
    registry,         \* repository -> image id its "latest" tag names
    pushes,           \* number of registry pushes so far
    local_latest,     \* the host's image store: repository -> id of :latest
    clock,            \* time.time()
    pc,               \* per process: position in main()/update_container()
    containers,       \* per process: the list main() iterates
    idx,              \* per process: position of the for loop in the list
    last_check_time,  \* per process: the module-level dict
    current_image,    \* per process: local of update_container
    new_image_id,     \* per process: local of update_container
    pass,             \* per process: number of the pass in progress
    created,          \* number of containers the runtime has created
    log,              \* runtime calls and notifications issued, in order
    inbox,            \* Telegram: the bot's updates not yet confirmed
    next_update_id,   \* Telegram: the id the next update gets
    last_update_id,   \* listener: local of main(); 0 stands for None
    updates,          \* listener: what is left of the polled batch
    listener_pc,      \* listener: position in main()
    polled,           \* every update get_updates() has returned, in order
    runs              \* update ids for which the updater was started, in order

vars ==
    <<DRY_RUN, RUN_ONCE, skip_containers, runtime, registry, pushes,
      local_latest, clock, pc, containers, idx, last_check_time, current_image,
      new_image_id, pass, created, log, inbox, next_update_id,
      last_update_id, updates, listener_pc, polled, runs>>

listener_vars ==
    <<inbox, next_update_id, last_update_id, updates, listener_pc, polled, runs>>

config_vars == <<DRY_RUN, RUN_ONCE, skip_containers>>

registry_vars == <<registry, pushes>>

updater_vars ==
    <<config_vars, runtime, registry_vars, local_latest, clock, pc, containers,
      idx, last_check_time, current_image, new_image_id, pass, created, log>>

(* ------------------------------ helpers ------------------------------- *)

\* One entry of the log: a runtime call (ok tells whether it returned), a
\* notify() or a logger line.  ref is an image reference, image an image
\* id; <<>> and 0 stand for "none".
Entry(op, name, p, ok, ref, image) ==
    [op |-> op, name |-> name, proc |-> p, pass |-> pass[p], ok |-> ok,
     ref |-> ref, image |-> image]

Notify(event, name, p, image) ==
    Entry(event, name, p, TRUE, <<>>, image)

Call(op, name, p, ok, ref) ==
    Entry(op, name, p, ok, ref, 0)

\* get_image_basename / tags[0].split(":")[0]
ImageBasename(tags) == tags[1]

\* The reference update_container pulls and deploys: always ":latest".
LatestRef(tags) == <<ImageBasename(tags), "latest">>

\* The container update_container is working on.
Cur(p) == containers[p][idx[p]]

\* The order in which the runtime lists a set of names: newest first.
Orders(S) ==
    {s \in [1..Cardinality(S) -> S] :
        /\ \A n \in S : \E i \in DOMAIN s : s[i] = n
        /\ \A i, j \in DOMAIN s : i < j => runtime[s[i]].id > runtime[s[j]].id}

Running == {n \in Names : runtime[n].status = "running"}

Snapshot(n) == [name |-> n] @@ runtime[n]

\* When a pass begins the log keeps, of the process's own entries, what the
\* previous pass did to each workload; older entries are dropped.
Recent(p) ==
    SelectSeq(log, LAMBDA e :
        e.proc # p \/ (e.pass >= pass[p] - 1 /\ e.name \in Names))

(* --------------------------- update_container ------------------------- *)

\* A faulty InSkipList: the skip list is never consulted.
InSkipListIgnored(name) == FALSE

\* "name in CFG['skip_containers']"
InSkipList(name) == name \in skip_containers

\* A faulty RateLimited: the age is compared with <= .
RateLimitedInclusive(p, name) ==
    /\ name \in DOMAIN last_check_time[p]
    /\ clock - last_check_time[p][name] <= CheckInterval

\* The rate-limit test of lines 334-336.
RateLimited(p, name) ==
    /\ name \in DOMAIN last_check_time[p]
    /\ clock - last_check_time[p][name] < CheckInterval

\* A faulty UpToDate: new_image_id is still None when it is compared (the
\* pulled id is never stored, as in the definition of line 190).
UpToDateUnset(new, cur) == 0 = cur

\* "new_image_id == current_image" is the up-to-date test (line 359).
UpToDate(new, cur) == new = cur

\* A faulty Return: the for loop is left after the first return, as by a
\* "break".
ReturnBreaks(p) ==
    /\ idx' = idx
    /\ pc' = [pc EXCEPT ![p] = "cleanup"]

\* update_container returns: the for loop takes the next container, or the
\* pass goes on to cleanup_unused_images().
Return(p) ==
    IF idx[p] < Len(containers[p])
    THEN /\ idx' = [idx EXCEPT ![p] = idx[p] + 1]
         /\ pc' = [pc EXCEPT ![p] = "update_container"]
    ELSE /\ idx' = idx
         /\ pc' = [pc EXCEPT ![p] = "cleanup"]

\* Lines 326-348: rate limit, skip list, container.image.id.
Enter(p) ==
    /\ pc[p] = "update_container"
    /\ UNCHANGED <<config_vars, listener_vars,
                   runtime, registry_vars, local_latest, clock,
                   containers, pass, created>>
    /\ LET name == Cur(p).name IN
       IF RateLimited(p, name)
       THEN /\ Return(p)
            /\ UNCHANGED <<last_check_time, current_image, new_image_id, log>>
       ELSE /\ last_check_time' =
                 [last_check_time EXCEPT
                    ![p] = (name :> clock) @@ last_check_time[p]]
            /\ new_image_id' = [new_image_id EXCEPT ![p] = 0]
            /\ IF InSkipList(name)
               THEN /\ log' = Append(log, Call("log_skip", name, p, TRUE, <<>>))
                    /\ Return(p)
                    /\ UNCHANGED current_image
               ELSE \E ok \in BOOLEAN :
                      IF ok
                      THEN /\ current_image' =
                                [current_image EXCEPT ![p] = Cur(p).image]
                           /\ pc' = [pc EXCEPT ![p] = "pull"]
                           /\ UNCHANGED <<idx, log>>
                      ELSE /\ log' = Append(log, Notify("error", name, p, 0))
                           /\ Return(p)
                           /\ UNCHANGED current_image

\* Lines 350-366: pull <basename>:latest, compare, dry-run report.
Pull(p) ==
    /\ pc[p] = "pull"
    /\ UNCHANGED <<config_vars, listener_vars,
                   runtime, registry_vars, clock, containers,
                   last_check_time, current_image, pass, created>>
    /\ LET name == Cur(p).name
           repo == ImageBasename(Cur(p).tags)
           ref  == LatestRef(Cur(p).tags)
       IN \E ok \in BOOLEAN :
            IF ok
            THEN LET new == registry[repo]
                     pulled == Entry("pull", name, p, TRUE, ref, new)
                 IN /\ local_latest' = [local_latest EXCEPT ![repo] = new]
                    /\ new_image_id' = [new_image_id EXCEPT ![p] = new]
                    /\ IF UpToDate(new, current_image[p])
                       THEN /\ log' = log \o
                                <<pulled, Notify("up_to_date", name, p, 0)>>
                            /\ Return(p)
                       ELSE IF DRY_RUN[p]
                       THEN /\ log' = log \o
                                <<pulled, Notify("dry_run", name, p, new)>>
                            /\ Return(p)
                       ELSE /\ log' = Append(log, pulled)
                            /\ pc' = [pc EXCEPT ![p] = "stop"]
                            /\ idx' = idx
            ELSE /\ log' = log \o
                     <<Call("pull", name, p, FALSE, ref),
                       Notify("error", name, p, 0)>>
                 /\ Return(p)
                 /\ UNCHANGED <<local_latest, new_image_id>>

\* The runtime still holds the container object update_container was given.
Holds(p) ==
    /\ runtime[Cur(p).name].status # "absent"
    /\ runtime[Cur(p).name].id = Cur(p).id

\* A faulty Stop: the handler of line 372 returns without notify().
StopSilent(p) ==
    /\ pc[p] = "stop"
    /\ UNCHANGED <<config_vars, listener_vars,
                   registry_vars, local_latest, clock, containers,
                   last_check_time, current_image, new_image_id, pass, created>>
    /\ LET name == Cur(p).name IN
       \E ok \in {b \in BOOLEAN : b => Holds(p)} :
          IF ok
          THEN /\ runtime' = [runtime EXCEPT ![name].status = "exited"]
               /\ log' = Append(log, Call("stop", name, p, TRUE, <<>>))
               /\ pc' = [pc EXCEPT ![p] = "remove"]
               /\ idx' = idx
          ELSE /\ log' = Append(log, Call("stop", name, p, FALSE, <<>>))
               /\ Return(p)
               /\ runtime' = runtime

\* Line 370: container.stop()
Stop(p) ==
    /\ pc[p] = "stop"
    /\ UNCHANGED <<config_vars, listener_vars,
                   registry_vars, local_latest, clock, containers,
                   last_check_time, current_image, new_image_id, pass, created>>
    /\ LET name == Cur(p).name IN
       \E ok \in {b \in BOOLEAN : b => Holds(p)} :
          IF ok
          THEN /\ runtime' = [runtime EXCEPT ![name].status = "exited"]
               /\ log' = Append(log, Call("stop", name, p, TRUE, <<>>))
               /\ pc' = [pc EXCEPT ![p] = "remove"]
               /\ idx' = idx
          ELSE /\ log' = log \o
                   <<Call("stop", name, p, FALSE, <<>>),
                     Notify("error", name, p, 0)>>
               /\ Return(p)
               /\ runtime' = runtime

\* Line 371: container.remove()
Remove(p) ==
    /\ pc[p] = "remove"
    /\ UNCHANGED <<config_vars, listener_vars,
                   registry_vars, local_latest, clock, containers,
                   last_check_time, current_image, new_image_id, pass, created>>
    /\ LET name == Cur(p).name IN
       \E ok \in {b \in BOOLEAN : b => Holds(p)} :
          IF ok
          THEN /\ runtime' = [runtime EXCEPT ![name] = Absent]
               /\ log' = Append(log, Call("remove", name, p, TRUE, <<>>))
               /\ pc' = [pc EXCEPT ![p] = "create"]
               /\ idx' = idx
          ELSE /\ log' = log \o
                   <<Call("remove", name, p, FALSE, <<>>),
                     Notify("error", name, p, 0)>>
               /\ Return(p)
               /\ runtime' = runtime

\* The arguments of client.containers.run (lines 378-386): the restart
\* policy is the literal {"Name": "always"}, no network is passed, and no
\* labels are passed.
RunConfig(c) ==
    [ports |-> c.config.ports, env |-> c.config.env,
     mounts |-> c.config.mounts, restart |-> "always",
     network |-> DefaultNetwork]

\* A faulty Replacement: run() is given the image the old container ran.
ReplacementOldImage(c, id) ==
    [status |-> "running", id |-> id, tags |-> LatestRef(c.tags),
     image |-> c.image, labels |-> {}, config |-> RunConfig(c)]

\* The container run() starts for update_container's arguments.
Replacement(c, id) ==
    [status |-> "running", id |-> id, tags |-> LatestRef(c.tags),
     image |-> local_latest[ImageBasename(c.tags)], labels |-> {},
     config |-> RunConfig(c)]

\* A faulty Create: the handler of line 387 lacks its "return", so a failed
\* run() falls through to the success report.
CreateNoReturn(p) ==
    /\ pc[p] = "create"
    /\ UNCHANGED <<config_vars, listener_vars,
                   registry_vars, local_latest, clock, containers,
                   last_check_time, current_image, new_image_id, pass>>
    /\ LET name == Cur(p).name
           ref  == LatestRef(Cur(p).tags)
       IN \E ok \in {b \in BOOLEAN : b => runtime[name] = Absent} :
            IF ok
            THEN /\ runtime' =
                      [runtime EXCEPT ![name] = Replacement(Cur(p), created + 1)]
                 /\ created' = created + 1
                 /\ log' = log \o
                      <<Call("create", name, p, TRUE, ref),
                        Notify("update", name, p, new_image_id[p])>>
            ELSE /\ log' = log \o
                      <<Call("create", name, p, FALSE, ref),
                        Notify("error", name, p, 0),
                        Notify("update", name, p, new_image_id[p])>>
                 /\ UNCHANGED <<runtime, created>>
    /\ Return(p)

\* Lines 376-393: client.containers.run(...), then the success report.
Create(p) ==
    /\ pc[p] = "create"
    /\ UNCHANGED <<config_vars, listener_vars,
                   registry_vars, local_latest, clock, containers,
                   last_check_time, current_image, new_image_id, pass>>
    /\ LET name == Cur(p).name
           ref  == LatestRef(Cur(p).tags)
       IN \E ok \in {b \in BOOLEAN : b => runtime[name] = Absent} :
            IF ok
            THEN /\ runtime' =
                      [runtime EXCEPT ![name] = Replacement(Cur(p), created + 1)]
                 /\ created' = created + 1
                 /\ log' = log \o
                      <<Call("create", name, p, TRUE, ref),
                        Notify("update", name, p, new_image_id[p])>>
            ELSE /\ log' = log \o
                      <<Call("create", name, p, FALSE, ref),
                        Notify("error", name, p, 0)>>
                 /\ UNCHANGED <<runtime, created>>
    /\ Return(p)

(* ------------------------ cleanup_unused_images ----------------------- *)

\* A faulty Cleanup: main() does not test RUN_ONCE after the cleanup.
CleanupThenSleep(p) ==
    /\ pc[p] = "cleanup"
    /\ UNCHANGED <<config_vars, listener_vars,
                   runtime, registry_vars, local_latest, clock,
                   containers, idx, last_check_time, current_image,
                   new_image_id, pass, created>>
    /\ log' = Append(log, Call("prune", "Docker Images", p, TRUE, <<>>))
    /\ pc' = [pc EXCEPT ![p] = "sleep"]

\* Lines 400-411: prune dangling images; report what was reclaimed.  Lines
\* 425-427: in run-once mode main() returns after it.
Cleanup(p) ==
    /\ pc[p] = "cleanup"
    /\ UNCHANGED <<config_vars, listener_vars,
                   runtime, registry_vars, local_latest, clock,
                   containers, idx, last_check_time, current_image,
                   new_image_id, pass, created>>
    /\ \E outcome \in {"nothing", "reclaimed", "failed"} :
         log' = log \o
           CASE outcome = "nothing" ->
                  <<Call("prune", "Docker Images", p, TRUE, <<>>)>>
             [] outcome = "reclaimed" ->
                  <<Call("prune", "Docker Images", p, TRUE, <<>>),
                    Notify("cleanup", "Docker Images", p, 0)>>
             [] outcome = "failed" ->
                  <<Call("prune", "Docker Images", p, FALSE, <<>>),
                    Notify("error", "Docker Images", p, 0)>>
    /\ pc' = [pc EXCEPT ![p] = IF RUN_ONCE[p] THEN "exited" ELSE "sleep"]

(* -------------------------------- main -------------------------------- *)

\* Lines 443-445: the dry-run banner, then main().
Start(p) ==
    /\ pc[p] = "start"
    /\ log' = IF DRY_RUN[p]
              THEN Append(log, Notify("dry_run", "", p, 0))
              ELSE log
    /\ pc' = [pc EXCEPT ![p] = "list"]
    /\ UNCHANGED <<config_vars, listener_vars,
                   runtime, registry_vars, local_latest, clock,
                   containers, idx, last_check_time, current_image,
                   new_image_id, pass, created>>

\* Lines 418 and 433: client.containers.list().  An exception it raises is
\* caught nowhere and ends the process.
List(p) ==
    /\ pc[p] = "list"
    /\ UNCHANGED <<config_vars, listener_vars,
                   runtime, registry_vars, local_latest, clock,
                   last_check_time, current_image, new_image_id, pass, created>>
    /\ \E ok \in BOOLEAN :
         IF ok
         THEN \E order \in Orders(Running) :
                /\ containers' =
                     [containers EXCEPT
                        ![p] = [i \in DOMAIN order |-> Snapshot(order[i])]]
                /\ idx' = [idx EXCEPT ![p] = 1]
                /\ pc' = [pc EXCEPT
                            ![p] = IF Running = {} THEN "cleanup"
                                   ELSE "update_container"]
                /\ log' = Recent(p)
         ELSE /\ pc' = [pc EXCEPT ![p] = "crashed"]
              /\ UNCHANGED <<containers, idx, log>>

\* Lines 430-431: time.sleep(CFG["check_interval"]).
\* A faulty Sleep: the loop sleeps less than check_interval.
SleepTooShort(p) ==
    /\ pc[p] = "sleep"
    /\ pass[p] < MaxPasses
    /\ clock' = clock + CheckInterval - 1
    /\ pass' = [pass EXCEPT ![p] = pass[p] + 1]
    /\ pc' = [pc EXCEPT ![p] = "list"]
    /\ UNCHANGED <<config_vars, listener_vars,
                   runtime, registry_vars, local_latest, containers,
                   idx, last_check_time, current_image, new_image_id,
                   created, log>>

Sleep(p) ==
    /\ pc[p] = "sleep"
    /\ pass[p] < MaxPasses
    /\ clock' = clock + CheckInterval
    /\ pass' = [pass EXCEPT ![p] = pass[p] + 1]
    /\ pc' = [pc EXCEPT ![p] = "list"]
    /\ UNCHANGED <<config_vars, listener_vars,
                   runtime, registry_vars, local_latest, containers,
                   idx, last_check_time, current_image, new_image_id,
                   created, log>>

Alive(p) == pc[p] \notin {"idle", "exited", "crashed"}

InUpdate(p) == pc[p] \in {"update_container", "pull", "stop", "remove", "create"}

\* Lines 439-440: KeyboardInterrupt is no Exception, so no handler inside
\* update_container catches it; main()'s handler ends the process from
\* wherever the interrupt arrives.
Interrupt(p) ==
    /\ Alive(p)
    /\ log' = Append(log,
                Entry("interrupt", IF InUpdate(p) THEN Cur(p).name ELSE "",
                      p, TRUE, <<pc[p]>>, 0))
    /\ pc' = [pc EXCEPT ![p] = "exited"]
    /\ UNCHANGED <<config_vars, listener_vars,
                   runtime, registry_vars, local_latest, clock,
                   containers, idx, last_check_time, current_image,
                   new_image_id, pass, created>>

\* The environment: a new image is pushed to a repository's "latest".
Push(r) ==
    /\ \E p \in Procs : Alive(p)
    /\ pushes < MaxPushes
    /\ pushes' = pushes + 1
    /\ registry' = [registry EXCEPT ![r] = registry[r] + 1]
    /\ UNCHANGED <<config_vars, listener_vars,
                   runtime, local_latest, clock, pc, containers,
                   idx, last_check_time, current_image, new_image_id, pass,
                   created, log>>

(* ----------------------- listener.py: main() -------------------------- *)

\* int(TELEGRAM_CHAT_ID) of line 83: the chat the listener obeys.
TELEGRAM_CHAT_ID == 1

\* What an update carries: the id of the chat of its message and the text.
\* An update without a "message" (an edited message, a channel post) gives
\* no chat id (here 0) and the text "" (lines 81-83).
Shapes ==
    {[chat |-> 1, text |-> "/update_now"],
     [chat |-> 1, text |-> " /Update_Now "],
     [chat |-> 1, text |-> "status"],
     [chat |-> 2, text |-> "/update_now"],
     [chat |-> 0, text |-> ""]}

\* text.strip() of line 82, then text.lower() of line 86.
StripLower(text) ==
    IF text = " /Update_Now " THEN "/update_now" ELSE text

\* A faulty Offset: the "+ 1" of line 78 is missing.
OffsetSame(last) == last

\* Line 78: last_update_id + 1 if last_update_id else None (0 for None).
Offset(last) == IF last # 0 THEN last + 1 ELSE 0

\* getUpdates of the Bot API: with an offset, the updates from that id on,
\* and the earlier ones are confirmed (forgotten); without one (line 61),
\* every update not yet confirmed.
GetUpdates(offset) ==
    IF offset # 0
    THEN SelectSeq(inbox, LAMBDA u : u.update_id >= offset)
    ELSE inbox

ListenerInit ==
    /\ inbox = <<>>
    /\ next_update_id = 1
    /\ last_update_id = 0
    /\ updates = <<>>
    /\ listener_pc = "poll"
    /\ polled = <<>>
    /\ runs = <<>>

\* Somebody sends the bot a message (or edits one): Telegram queues an
\* update under a new id, larger than every id before.
Receive(m) ==
    /\ \E id \in {next_update_id, next_update_id + 1} :
         /\ id <= MaxUpdates
         /\ inbox' = Append(inbox, [update_id |-> id,
                                    chat |-> m.chat, text |-> m.text])
         /\ next_update_id' = id + 1
    /\ UNCHANGED <<updater_vars, last_update_id, updates, listener_pc,
                   polled, runs>>

\* Lines 78 and 58-69: get_updates(); a failed request gives [].
Poll ==
    /\ listener_pc = "poll"
    /\ listener_pc' = "for"
    /\ \E ok \in BOOLEAN :
         IF ok
         THEN LET result == GetUpdates(Offset(last_update_id))
              IN /\ updates' = result
                 /\ inbox' = result
                 /\ polled' = polled \o result
         ELSE /\ updates' = <<>>
              /\ UNCHANGED <<inbox, polled>>
    /\ UNCHANGED <<updater_vars, next_update_id, last_update_id, runs>>

\* Lines 79-110: the body of the for loop for one update; subprocess.run
\* returns when the updater has ended or after its timeout.
Handle ==
    /\ listener_pc = "for"
    /\ updates # <<>>
    /\ LET u == Head(updates) IN
       /\ last_update_id' = u.update_id
       /\ runs' =
            IF u.chat # TELEGRAM_CHAT_ID THEN runs
            ELSE IF StripLower(u.text) = "/update_now"
                 THEN Append(runs, u.update_id)
                 ELSE runs
    /\ updates' = Tail(updates)
    /\ UNCHANGED <<updater_vars, inbox, next_update_id, listener_pc, polled>>

\* Line 111: time.sleep(CHECK_INTERVAL), then the next turn of the loop.
ListenerSleep ==
    /\ listener_pc = "for"
    /\ updates = <<>>
    /\ listener_pc' = "poll"
    /\ UNCHANGED <<updater_vars, inbox, next_update_id, last_update_id,
                   updates, polled, runs>>

(* --------------------------- specification ---------------------------- *)

Init ==
    /\ DRY_RUN \in [Procs -> BOOLEAN]
    /\ \A p \in Procs : p # "daemon" => ~DRY_RUN[p]
    /\ RUN_ONCE \in [Procs -> BOOLEAN]
    /\ \A p \in Procs : p # "daemon" => ~RUN_ONCE[p]
    /\ skip_containers \in SUBSET Names
    /\ \E w \in WebContainers, d \in DbContainers :
         runtime = ("web" :> [w EXCEPT !.id = 1]) @@ ("db" :> [d EXCEPT !.id = 2])
    /\ registry = [r \in Repos |-> 1]
    /\ pushes = 0
    /\ local_latest =
         [r \in Repos |->
            IF \E n \in Names : runtime[n].tags = <<r, "latest">> THEN 1 ELSE 0]
    /\ clock = 0
    /\ pc = [p \in Procs |-> IF p = "daemon" THEN "start" ELSE "idle"]
    /\ containers = [p \in Procs |-> <<>>]
    /\ idx = [p \in Procs |-> 1]
    /\ last_check_time = [p \in Procs |-> <<>>]
    /\ current_image = [p \in Procs |-> 0]
    /\ new_image_id = [p \in Procs |-> 0]
    /\ pass = [p \in Procs |-> 1]
    /\ created = 2
    /\ log = <<>>
    /\ ListenerInit

Step(p) ==
    \/ Start(p)
    \/ List(p)
    \/ Enter(p)
    \/ Pull(p)
    \/ Stop(p)
    \/ Remove(p)
    \/ Create(p)
    \/ Cleanup(p)
    \/ Sleep(p)
    \/ Interrupt(p)

Next ==
    \/ \E p \in Procs : Step(p)
    \/ \E r \in Repos : Push(r)

Spec == Init /\ [][Next]_vars

(* ------------------- a run started by the listener -------------------- *)

\* listener.py, lines 86-97: on "/update_now" the listener runs the updater
\* script inside the daemon's container, with no flags.  The run is a new
\* process: its last_check_time starts empty and nothing makes it wait for
\* the daemon's pass.  The run is followed through its first pass.
Trigger ==
    /\ Alive("daemon")
    /\ pc["manual"] = "idle"
    /\ pc' = [pc EXCEPT !["manual"] = "start"]
    /\ pass' = [pass EXCEPT !["manual"] = MaxPasses]
    /\ UNCHANGED <<config_vars, listener_vars,
                   runtime, registry_vars, local_latest, clock,
                   containers, idx, last_check_time, current_image,
                   new_image_id, created, log>>

\* The host runs one standalone workload, "web"; the daemon runs without
\* flags and skips nothing.
InitTrigger ==
    /\ DRY_RUN = [p \in Procs |-> FALSE]
    /\ RUN_ONCE = [p \in Procs |-> FALSE]
    /\ skip_containers = {}
    /\ runtime = ("web" :> [Container(WebTags, {}, WebConfig) EXCEPT !.id = 1])
                   @@ ("db" :> Absent)
    /\ registry = [r \in Repos |-> 1]
    /\ pushes = 0
    /\ local_latest = [r \in Repos |-> IF r = ImageBasename(WebTags) THEN 1 ELSE 0]
    /\ clock = 0
    /\ pc = [p \in Procs |-> IF p = "daemon" THEN "start" ELSE "idle"]
    /\ containers = [p \in Procs |-> <<>>]
    /\ idx = [p \in Procs |-> 1]
    /\ last_check_time = [p \in Procs |-> <<>>]
    /\ current_image = [p \in Procs |-> 0]
    /\ new_image_id = [p \in Procs |-> 0]
    /\ pass = [p \in Procs |-> 1]
    /\ created = 1
    /\ log = <<>>
    /\ ListenerInit

\* time.time() (line 333) reads the wall clock, which is not monotonic: it is
\* set back while a process sleeps, seen here as the process wakes up.
SetBack ==
    /\ \E p \in Procs : pc[p] = "list"
    /\ clock > 0
    /\ clock' = clock - 1
    /\ UNCHANGED <<config_vars, listener_vars,
                   runtime, registry_vars, local_latest, pc,
                   containers, idx, last_check_time, current_image,
                   new_image_id, pass, created, log>>

\* The labels of a container are read nowhere on the way through
\* update_container (lines 326-393); the runs with the clock start without.
InitClock ==
    /\ Init
    /\ \A n \in Names : runtime[n].labels = {}

NextClock == Next \/ SetBack
SpecClock == InitClock /\ [][NextClock]_vars

NextTrigger == Next \/ Trigger

SpecTrigger == InitTrigger /\ [][NextTrigger]_vars

\* The listener alone, with Telegram: the updater it starts is left out.
NextListener ==
    \/ \E m \in Shapes : Receive(m)
    \/ Poll
    \/ Handle
    \/ ListenerSleep

SpecListener == InitTrigger /\ [][NextListener]_vars

(* ----------------------- reading the log ------------------------------ *)

Mutating == {"stop", "remove", "create"}

\* Notifications that report a workload stale.
StaleReports == {"dry_run", "update"}

\* An entry about a workload, made in the pass its process is in.
IsCurrent(e) == e.name \in Names /\ e.pass = pass[e.proc]

\* The container, as listed, that a current entry is about.
Subject(e) ==
    LET l == containers[e.proc]
    IN l[CHOOSE k \in DOMAIN l : l[k].name = e.name]

\* Entries i and j are about the same workload, process and pass.
SameCall(i, j) ==
    /\ log[i].name = log[j].name
    /\ log[i].proc = log[j].proc
    /\ log[i].pass = log[j].pass

Pinned(c) == c.tags[2] # "latest"

\* The topology the specification assigns (its section 4.2).
OrchestratorManaged(c) == StackLabel \in c.labels
ComposeManaged(c) ==
    /\ ~OrchestratorManaged(c)
    /\ {ProjectLabel, ServiceLabel} \subseteq c.labels
Standalone(c) == ~OrchestratorManaged(c) /\ ~ComposeManaged(c)

(* ------------------------------ claims -------------------------------- *)

\* C1: in dry-run mode the program never issues a stop, remove, create,
\* image pull, image prune or orchestrator/compose call.
C1_DryRunIssuesNoCall ==
    \A i \in DOMAIN log :
        DRY_RUN[log[i].proc] =>
            log[i].op \notin Mutating \cup
                {"pull", "prune", "service_update", "compose_pull", "compose_up"}

\* C2: a workload whose image tag is pinned is never reported stale and is
\* never stopped, removed or created, whatever the registry holds.
C2_PinnedNeverReplaced ==
    \A i \in DOMAIN log :
        IsCurrent(log[i]) /\ Pinned(Subject(log[i])) =>
            log[i].op \notin Mutating \cup StaleReports

\* C3: a Standalone replacement runs under the same name with the ports,
\* environment, mounts, restart policy and network of the workload it
\* replaced.
C3_ReplacementKeepsConfig ==
    \A i \in DOMAIN log :
        /\ IsCurrent(log[i])
        /\ log[i].op = "create"
        /\ log[i].ok
        /\ Standalone(Subject(log[i]))
        => /\ runtime[log[i].name].status = "running"
           /\ runtime[log[i].name].config = Subject(log[i]).config

\* C4: a workload carrying the stack label is updated only through the
\* orchestrator's service update; the engine never stops, removes or
\* creates it.
C4_StackNeverReplacedByEngine ==
    \A i \in DOMAIN log :
        IsCurrent(log[i]) /\ OrchestratorManaged(Subject(log[i])) =>
            /\ log[i].op \notin Mutating
            /\ log[i].op = "update" =>
                 \E j \in 1..(i - 1) :
                    SameCall(i, j) /\ log[j].op = "service_update"

\* C5: a Compose-managed workload is updated through the compose tool's
\* pull and then its apply for that service, never through stop, remove or
\* create; after a failed compose pull no apply is issued.
C5_ComposeUpdatedByComposeTool ==
    \A i \in DOMAIN log :
        IsCurrent(log[i]) /\ ComposeManaged(Subject(log[i])) =>
            /\ log[i].op \notin Mutating
            /\ log[i].op = "update" =>
                 \E j, k \in 1..(i - 1) :
                    /\ j < k
                    /\ SameCall(i, j) /\ log[j].op = "compose_pull" /\ log[j].ok
                    /\ SameCall(i, k) /\ log[k].op = "compose_up"
            /\ log[i].op = "compose_up" =>
                 ~\E j \in 1..(i - 1) :
                    SameCall(i, j) /\ log[j].op = "compose_pull" /\ ~log[j].ok

\* C6: a workload on the skip list is never examined: no pull, no identity
\* comparison or report, no stop, remove or create for its name, and the
\* runtime keeps running it.
C6_SkippedNeverExamined ==
    /\ \A i \in DOMAIN log :
          log[i].name \in skip_containers =>
              log[i].op \in {"log_skip", "interrupt"}
    /\ \A p \in Procs :
          pc[p] \in {"pull"} \cup Mutating => Cur(p).name \notin skip_containers
    /\ \A n \in skip_containers : runtime[n].status = "running"

\* C6 witness: a running workload on the skip list was passed over and the
\* pass went on.
C6_Witness ==
    \E i \in DOMAIN log :
        /\ log[i].op = "log_skip"
        /\ log[i].name \in skip_containers
        /\ pc[log[i].proc] \in {"cleanup", "sleep"}

\* C7: when the identity the pull obtained equals the identity the workload
\* runs, update_container reports it up to date straight away and issues no
\* stop, remove or create for it (nor a stale report).
C7_EqualIdentityNoMutation ==
    /\ \A i \in DOMAIN log :
          /\ IsCurrent(log[i])
          /\ log[i].op = "pull"
          /\ log[i].ok
          /\ log[i].image = Subject(log[i]).image
          => /\ i < Len(log)
             /\ log[i + 1].op = "up_to_date"
             /\ SameCall(i, i + 1)
             /\ \A j \in DOMAIN log :
                   SameCall(i, j) => log[j].op \notin Mutating \cup StaleReports
    /\ \A p \in Procs :
          pc[p] \in Mutating => new_image_id[p] # current_image[p]

\* C7 witness: a pull returned the identity the workload runs and the
\* up-to-date report was made.
C7_Witness ==
    \E i \in DOMAIN log :
        /\ IsCurrent(log[i])
        /\ log[i].op = "pull"
        /\ log[i].ok
        /\ log[i].image = Subject(log[i]).image
        /\ i < Len(log)
        /\ log[i + 1].op = "up_to_date"

\* The workload n was created anew by p in the previous pass from the
\* identity the registry still holds for its repository.
ReplacedLastPass(p, n) ==
    \E i \in DOMAIN log :
        /\ log[i].proc = p /\ log[i].name = n
        /\ log[i].pass = pass[p] - 1
        /\ log[i].op = "create" /\ log[i].ok
        /\ log[i + 1].op = "update"
        /\ registry[log[i].ref[1]] = log[i + 1].image

\* Indices of what p did to n in the pass in progress.
ThisPass(p, n) ==
    {j \in DOMAIN log :
        log[j].proc = p /\ log[j].name = n /\ log[j].pass = pass[p]}

\* C8: a workload replaced in one pass is, in the following pass and with
\* the registry unchanged, running the registry's identity; that pass never
\* reports it stale, reports it up to date whenever its pull succeeds, and
\* issues no stop, remove or create for it.
C8_Convergence ==
    \A p \in Procs, n \in Names :
        ReplacedLastPass(p, n) =>
            /\ runtime[n].status = "running"
            /\ runtime[n].image = registry[ImageBasename(runtime[n].tags)]
            /\ \A j \in ThisPass(p, n) :
                  /\ log[j].op \notin Mutating \cup StaleReports
                  /\ log[j].op = "pull" /\ log[j].ok =>
                        /\ j < Len(log)
                        /\ log[j + 1].op = "up_to_date"
                        /\ SameCall(j, j + 1)

\* C8 witness: the pass after a replacement examined the workload and
\* reported it up to date.
C8_Witness ==
    \E p \in Procs, n \in Names :
        /\ ReplacedLastPass(p, n)
        /\ \E j \in ThisPass(p, n) : log[j].op = "up_to_date"

\* C9: a pass prunes images only if it updated at least one workload.
C9_PruneOnlyAfterUpdate ==
    \A i \in DOMAIN log :
        log[i].op = "prune" =>
            \E j \in 1..(i - 1) :
                /\ log[j].proc = log[i].proc
                /\ log[j].pass = log[i].pass
                /\ log[j].op = "update"

\* C10: a KeyboardInterrupt never ends the process while a workload is
\* between stop and create, so none is left stopped or removed without its
\* replacement by a cancellation.
C10_NoCancelMidReplacement ==
    \A i \in DOMAIN log :
        log[i].op = "interrupt" =>
            /\ log[i].ref[1] \notin {"remove", "create"}
            /\ (\E j \in 1..(i - 1) :
                    SameCall(i, j) /\ log[j].op = "stop" /\ log[j].ok)
               => runtime[log[i].name].status = "running"

\* Positions at which a process has stopped a workload and not yet finished
\* creating its replacement.
Replacing == {"remove", "create"}

\* C11: at no time are two replacement sequences in progress on the same
\* workload name, also when a run started by the listener overlaps a pass of
\* the daemon.
C11_OneReplacementPerName ==
    \A p, q \in Procs :
        /\ p # q
        /\ pc[p] \in Replacing
        /\ pc[q] \in Replacing
        => Cur(p).name # Cur(q).name

(* ------------------------ where a process is -------------------------- *)

Interrupted(p) ==
    \E i \in DOMAIN log : log[i].proc = p /\ log[i].op = "interrupt"

\* The position of p in main(), or the one its interrupt found it at.
At(p) ==
    IF Interrupted(p)
    THEN LET i == CHOOSE j \in DOMAIN log :
                      log[j].proc = p /\ log[j].op = "interrupt"
         IN log[i].ref[1]
    ELSE pc[p]

\* main() returned after the cleanup of a run-once pass.
Returned(p) == pc[p] = "exited" /\ ~Interrupted(p)

\* The for loop of the pass in progress has gone through the whole list.
LoopDone(p) == At(p) \in {"cleanup", "sleep"} \/ Returned(p)

\* update_container has returned for position k of the list of this pass.
Done(p, k) ==
    /\ k \in DOMAIN containers[p]
    /\ \/ LoopDone(p)
       \/ At(p) \in {"update_container", "pull"} \cup Mutating /\ k < idx[p]

\* Indices of the prune calls of p in the pass in progress.
Prunes(p) ==
    {j \in DOMAIN log :
        log[j].proc = p /\ log[j].pass = pass[p] /\ log[j].op = "prune"}

\* C12: a failure while processing one workload never aborts the pass: the
\* failed call is followed by an error notification naming that workload,
\* every listed workload is processed, and the cleanup runs.
C12_FailureKeepsPassGoing ==
    /\ \A i \in DOMAIN log :
          log[i].name \in Names /\ ~log[i].ok =>
              /\ i < Len(log)
              /\ log[i + 1].op = "error"
              /\ SameCall(i, i + 1)
    /\ \A p \in Procs :
          /\ pc[p] = "crashed" => \A n \in Names : ThisPass(p, n) = {}
          /\ \A k \in DOMAIN containers[p] :
                Done(p, k) => ThisPass(p, containers[p][k].name) # {}
          /\ At(p) = "sleep" \/ Returned(p) => Prunes(p) # {}

\* C12 witness: the first workload of a pass failed, the second was
\* processed all the same, and the cleanup ran.
C12_Witness ==
    \E p \in Procs :
        /\ At(p) = "sleep"
        /\ Len(containers[p]) = 2
        /\ \E i \in ThisPass(p, containers[p][1].name) : log[i].op = "error"
        /\ ThisPass(p, containers[p][2].name) # {}
        /\ Prunes(p) # {}

\* C13: when run() fails after the old unit was removed, the workload is
\* left absent, an error notification is made for it, no update
\* notification is made for it, and no further create is attempted.
C13_FailedCreateIsTerminal ==
    \A i \in DOMAIN log :
        log[i].op = "create" /\ ~log[i].ok =>
            /\ runtime[log[i].name] = Absent
            /\ i < Len(log)
            /\ log[i + 1].op = "error"
            /\ SameCall(i, i + 1)
            /\ \A j \in DOMAIN log :
                  SameCall(i, j) =>
                      /\ log[j].op # "update"
                      /\ log[j].op = "create" => j = i

\* C13 witness: a run() failed after stop and remove succeeded.
C13_Witness ==
    \E i \in DOMAIN log :
        /\ log[i].op = "create" /\ ~log[i].ok
        /\ i > 2
        /\ log[i - 1].op = "remove" /\ log[i - 1].ok /\ SameCall(i, i - 1)

\* C14: in run-once mode main() makes one pass and one cleanup and returns;
\* it never sleeps or starts a second pass, and is never left without a
\* step to take before it has returned.
C14_RunOnceSinglePass ==
    \A p \in Procs :
        RUN_ONCE[p] =>
            /\ pass[p] = 1
            /\ pc[p] # "sleep"
            /\ Cardinality(Prunes(p)) <= 1
            /\ Returned(p) =>
                  /\ Cardinality(Prunes(p)) = 1
                  /\ \A k \in DOMAIN containers[p] :
                        ThisPass(p, containers[p][k].name) # {}
                  /\ \A j \in Prunes(p), k \in DOMAIN log :
                        log[k].name \in Names => k < j
            /\ Alive(p) =>
                  ENABLED (Start(p) \/ List(p) \/ Enter(p) \/ Pull(p) \/ Stop(p)
                           \/ Remove(p) \/ Create(p) \/ Cleanup(p))

\* C14 witness: a run-once process went through two workloads, pruned and
\* returned.
C14_Witness ==
    \E p \in Procs :
        /\ RUN_ONCE[p]
        /\ Returned(p)
        /\ Len(containers[p]) = 2
        /\ Prunes(p) # {}

\* The step appends a call of p with the given op to the log.
Appends(p, op) ==
    /\ Len(log') > Len(log)
    /\ log'[Len(log) + 1].proc = p
    /\ log'[Len(log) + 1].op = op

\* C15: a run started by the listener pulls for no workload that the
\* running daemon examined less than check_interval earlier.
C15_ManualRunHonoursDaemonLimit ==
    [][Appends("manual", "pull") =>
          LET name == log'[Len(log) + 1].name
          IN ~RateLimited("daemon", name)]_vars

\* C16: a failure of containers.list() does not terminate the process: the
\* pass ends and the loop goes on to sleep and to list again.
C16_ListFailureSurvived ==
    \A p \in Procs : pc[p] # "crashed"

\* Entry i reports the replacement of a Standalone workload of the pass in
\* progress.
StandaloneUpdate(i) ==
    /\ log[i].op = "update"
    /\ IsCurrent(log[i])
    /\ Standalone(Subject(log[i]))

\* The calls the pass made for the workload of entry i, each once, in the
\* order pull, stop, remove, create, each successful, then the report.
OneOfEachInOrder(i) ==
    /\ i > 4
    /\ \A k \in 1..4 :
          /\ SameCall(i, i - k)
          /\ log[i - k].ok
          /\ log[i - k].op = <<"create", "remove", "stop", "pull">>[k]
    /\ \A j \in DOMAIN log :
          SameCall(i, j) => j \in (i - 4)..i

\* C17: for a stale Standalone workload whose every step succeeds, a pass
\* issues exactly one pull, stop, remove and create for the name, in that
\* order and each after the success of the one before, and exactly one
\* update notification, which names the workload and the new image
\* reference.
C17_OneReplacementOneReport ==
    \A i \in DOMAIN log :
        StandaloneUpdate(i) =>
            /\ OneOfEachInOrder(i)
            /\ log[i].ref = log[i - 1].ref

\* The part of C17 about the calls and their order alone.
C17_CallsInOrder ==
    \A i \in DOMAIN log : StandaloneUpdate(i) => OneOfEachInOrder(i)

\* The timestamp p holds for name n is less than check_interval old.
CheckedRecently(p, n) ==
    /\ n \in DOMAIN last_check_time[p]
    /\ clock - last_check_time[p][n] < CheckInterval

\* The step is the entry of p into update_container, up to its first
\* call or its return.
EnterStep(p) ==
    /\ pc[p] = "update_container"
    /\ pc'[p] \in {"pull", "cleanup"} \/ idx'[p] # idx[p]

\* C18: within one process, a call of update_container for a name checked
\* less than check_interval ago returns without pulling, notifying,
\* mutating the runtime or changing last_check_time; any other call sets the
\* timestamp of the name to the current time before it does anything else.
C18_RateLimitFrame ==
    [][\A p \in Procs :
          /\ EnterStep(p) =>
                IF CheckedRecently(p, Cur(p).name)
                THEN UNCHANGED <<log, runtime, last_check_time, local_latest,
                                 current_image, new_image_id, created>>
                ELSE /\ Cur(p).name \in DOMAIN last_check_time'[p]
                     /\ last_check_time'[p][Cur(p).name] = clock
          /\ \A op \in {"pull", "log_skip", "error"} :
                Appends(p, op) =>
                    LET n == log'[Len(log) + 1].name
                    IN n \in Names =>
                          /\ n \in DOMAIN last_check_time'[p]
                          /\ last_check_time'[p][n] = clock']_vars

\* C18 witness: a pass has gone through its list without an entry for the
\* first workload, whose timestamp is less than check_interval old.
C18_Witness ==
    \E p \in Procs :
        /\ At(p) = "cleanup"
        /\ pass[p] > 1
        /\ Len(containers[p]) > 0
        /\ ThisPass(p, containers[p][1].name) = {}
        /\ CheckedRecently(p, containers[p][1].name)
        /\ last_check_time[p][containers[p][1].name] < clock

\* Entry i is a failed pull of the pass before the one p has in progress,
\* for the workload at position k of the present list, whose call is over.
FailedPullBefore(i, p, k) ==
    /\ log[i].op = "pull" /\ ~log[i].ok
    /\ log[i].proc = p
    /\ log[i].pass = pass[p] - 1
    /\ Done(p, k)
    /\ containers[p][k].name = log[i].name

PullsThisPass(p, n) == {j \in ThisPass(p, n) : log[j].op = "pull"}

\* The whole of the call for n in this pass is the report of a failed
\* container.image.id.
OnlyIdentityError(p, n) ==
    \E j \in DOMAIN log : ThisPass(p, n) = {j} /\ log[j].op = "error"

CallOps == {"pull", "stop", "remove", "create", "prune", "log_skip", "interrupt"}

ResultKinds == {"up_to_date", "dry_run", "update", "error"}

\* The notifications p made for workload n in the pass in progress.
Notifications(p, n) == {j \in ThisPass(p, n) : log[j].op \notin CallOps}

\* C20: a call of update_container that passes the rate-limit and skip-list
\* tests makes exactly one notification, of kind up_to_date, dry_run, update
\* or error, as it returns; a rate-limited or skip-listed call makes none.
C20_OneNotificationPerCall ==
    \A p \in Procs : \A k \in DOMAIN containers[p] :
        LET n == containers[p][k].name IN
        IF Done(p, k) /\ n \notin skip_containers /\ ThisPass(p, n) # {}
        THEN \E j \in DOMAIN log :
                /\ Notifications(p, n) = {j}
                /\ log[j].op \in ResultKinds
                /\ \A i \in ThisPass(p, n) : i <= j
        ELSE Notifications(p, n) = {}

\* C20 witness: a call that passed both tests made its one notification
\* and a skip-listed call was logged without one; in the following pass the
\* first workload was rate-limited and left no entry.
C20_Witness ==
    \E p \in Procs :
        /\ LoopDone(p)
        /\ pass[p] > 1
        /\ \E k \in DOMAIN containers[p] :
              LET n == containers[p][k].name IN
              /\ n \notin skip_containers
              /\ ThisPass(p, n) = {}
              /\ CheckedRecently(p, n)
              /\ \E j \in DOMAIN log :
                    /\ log[j].proc = p /\ log[j].name = n
                    /\ log[j].pass = pass[p] - 1
                    /\ log[j].op \in ResultKinds
        /\ \E j \in DOMAIN log :
              /\ log[j].proc = p /\ log[j].name \in skip_containers
              /\ log[j].op = "log_skip"

\* The texts that are the command /update_now as a user types it.
UpdateNowTexts == {"/update_now", " /Update_Now "}

\* The ids of the polled updates that are /update_now messages of the
\* configured chat.
CommandsReceived ==
    {polled[i].update_id :
        i \in {j \in DOMAIN polled :
                  /\ polled[j].chat = TELEGRAM_CHAT_ID
                  /\ polled[j].text \in UpdateNowTexts}}

\* C21: the listener never starts more updater runs than it has received
\* distinct /update_now messages from the configured chat: every run
\* answers such a message, none answers a message of another chat, no
\* message is answered twice, and no update is polled twice.
C21_RunsBoundedByCommands ==
    /\ Len(runs) <= Cardinality(CommandsReceived)
    /\ \A i \in DOMAIN runs : runs[i] \in CommandsReceived
    /\ \A i, j \in DOMAIN runs : runs[i] = runs[j] => i = j
    /\ \A i, j \in DOMAIN polled :
          polled[i].update_id = polled[j].update_id => i = j

\* C21 witness: the listener has answered two commands of its chat, has
\* passed over one of another chat, and a poll with an offset has confirmed
\* them all.
C21_Witness ==
    /\ Len(runs) = 2
    /\ \E i \in DOMAIN polled :
          /\ polled[i].chat # TELEGRAM_CHAT_ID
          /\ polled[i].text \in UpdateNowTexts
    /\ last_update_id > 0
    /\ inbox = <<>>
    /\ listener_pc = "for"

====
